---- MODULE Spec2Model ----
(***************************************************************************)
(* Model of qt-main/main.cpp: the bootstrap of the MyMe desktop            *)
(* application.  main() is a straight-line sequence of calls followed by   *)
(* the hand-off to the Qt event loop.  The only deferred code is the       *)
(* objectCreated lambda, connected with Qt::QueuedConnection, which the    *)
(* event loop runs from the application's posted-event queue.              *)
(*                                                                         *)
(* Every statement of main is one action.  The two extern "C" bridge       *)
(* initializers are opaque: each call returns an arbitrary bool.  The      *)
(* outcome of engine.load(url) is an arbitrary choice between a created    *)
(* root object and a failed load.  While the event loop runs the engine    *)
(* may emit further objectCreated notifications and the framework may      *)
(* leave the loop with a code of its own.                                  *)
(***************************************************************************)
EXTENDS Integers, Sequences, FiniteSets

VARIABLES
    pc,            \* position of main
    calls,         \* statements of main executed so far, in order
    appName,       \* QCoreApplication::applicationName
    orgName,       \* QCoreApplication::organizationName
    appVersion,    \* QCoreApplication::applicationVersion
    themeName,     \* QIcon::themeName
    style,         \* QQuickStyle name
    cxxRets,       \* results of the calls of cxx_qt_init_crate_myme_ui
    noteCalls,     \* calls of initialize_note_model: [arg, ret]
    engine,        \* the QQmlApplicationEngine exists
    importPaths,   \* import paths added to the engine
    connected,     \* the objectCreated lambda is connected
    rootObjects,   \* number of objects in engine.rootObjects()
    emitted,       \* objectCreated emissions so far: [obj, url, received]
    queue,         \* posted events of the queued connection, oldest first
    handled,       \* runs of the lambda: [obj, url, exit, inLoop]
    envEmits,      \* emissions made by the engine while the loop runs
    inExec,        \* app.exec() is running
    exitRequested, \* QCoreApplication::exit was called inside the loop
    returnCode,    \* the code the loop will return
    exitCode       \* the value main returned (meaningful when pc = "done")

vars == <<pc, calls, appName, orgName, appVersion, themeName, style, cxxRets,
          noteCalls, engine, importPaths, connected, rootObjects, emitted,
          queue, handled, envEmits, inExec, exitRequested, returnCode,
          exitCode>>

\* ---- bounds -------------------------------------------------------------
MaxEmits == 2      \* objectCreated emissions made while the loop runs
MaxQueue == 2      \* posted events pending at one time

\* ---- values -------------------------------------------------------------
Null == "null"                 \* a null QObject*
Object == "object"             \* a created root object
Objs == {Null, Object}

Url == "qrc:/crates/myme-ui/qml/Main.qml"
OtherUrl == "qrc:/other.qml"   \* the URL of any unrelated load
Urls == {Url, OtherUrl}

BaseUrlWrongPort == "http://localhost:8080"
BaseUrl == "http://localhost:8008"

FrameworkCodes == {-1, 0, 1}   \* codes the framework itself may exit with

ConnectionDirect == "Direct"
ConnectionType == "Queued"

\* ---- control flow of main ----------------------------------------------
Order == <<"app", "name", "org", "version", "theme", "style", "cxxinit",
           "noteinit", "engine", "import1", "import2", "connect", "load",
           "check", "exec">>

RECURSIVE IndexOf(_, _, _)
IndexOf(s, x, i) ==
    IF i > Len(s) THEN 0 ELSE IF s[i] = x THEN i ELSE IndexOf(s, x, i + 1)

\* the engine is constructed before the bridges are initialized
NextPcEngineFirst(p) ==
    CASE p = "style"    -> "engine"
      [] p = "engine"   -> "cxxinit"
      [] p = "noteinit" -> "import1"
      [] OTHER          -> Order[IndexOf(Order, p, 1) + 1]

\* the document is loaded before the lambda is connected
NextPcLoadFirst(p) ==
    CASE p = "import2"  -> "load"
      [] p = "load"     -> "connect"
      [] p = "connect"  -> "check"
      [] OTHER          -> Order[IndexOf(Order, p, 1) + 1]

\* the statement that follows statement p in main
NextPc(p) == Order[IndexOf(Order, p, 1) + 1]

Step(p) ==
    /\ pc = p
    /\ pc' = NextPc(p)
    /\ calls' = Append(calls, p)

\* ---- the lambda ---------------------------------------------------------
ShouldExitAnyUrl(obj, objUrl) == obj = Null

\* if (!obj && url == objUrl)
ShouldExit(obj, objUrl) == obj = Null /\ objUrl = Url

Init ==
    /\ pc = "app"
    /\ calls = << >>
    /\ appName = ""
    /\ orgName = ""
    /\ appVersion = ""
    /\ themeName = ""
    /\ style = ""
    /\ cxxRets = << >>
    /\ noteCalls = << >>
    /\ engine = FALSE
    /\ importPaths = << >>
    /\ connected = FALSE
    /\ rootObjects = 0
    /\ emitted = {}
    /\ queue = << >>
    /\ handled = {}
    /\ envEmits = 0
    /\ inExec = FALSE
    /\ exitRequested = FALSE
    /\ returnCode = 0
    /\ exitCode = 0

\* QGuiApplication app(argc, argv);
ConstructApp ==
    /\ Step("app")
    /\ UNCHANGED <<appName, orgName, appVersion, themeName, style, cxxRets,
                   noteCalls, engine, importPaths, connected, rootObjects,
                   emitted, queue, handled, envEmits, inExec, exitRequested,
                   returnCode, exitCode>>

SetApplicationName ==
    /\ Step("name")
    /\ appName' = "MyMe"
    /\ UNCHANGED <<orgName, appVersion, themeName, style, cxxRets,
                   noteCalls, engine, importPaths, connected, rootObjects,
                   emitted, queue, handled, envEmits, inExec, exitRequested,
                   returnCode, exitCode>>

SetOrganizationName ==
    /\ Step("org")
    /\ orgName' = "MyMe"
    /\ UNCHANGED <<appName, appVersion, themeName, style, cxxRets,
                   noteCalls, engine, importPaths, connected, rootObjects,
                   emitted, queue, handled, envEmits, inExec, exitRequested,
                   returnCode, exitCode>>

SetApplicationVersionShort ==
    /\ Step("version")
    /\ appVersion' = "0.1"
    /\ UNCHANGED <<appName, orgName, themeName, style, cxxRets,
                   noteCalls, engine, importPaths, connected, rootObjects,
                   emitted, queue, handled, envEmits, inExec, exitRequested,
                   returnCode, exitCode>>

SetApplicationVersion ==
    /\ Step("version")
    /\ appVersion' = "0.1.0"
    /\ UNCHANGED <<appName, orgName, themeName, style, cxxRets,
                   noteCalls, engine, importPaths, connected, rootObjects,
                   emitted, queue, handled, envEmits, inExec, exitRequested,
                   returnCode, exitCode>>

SetThemeName ==
    /\ Step("theme")
    /\ themeName' = "breeze"
    /\ UNCHANGED <<appName, orgName, appVersion, style, cxxRets,
                   noteCalls, engine, importPaths, connected, rootObjects,
                   emitted, queue, handled, envEmits, inExec, exitRequested,
                   returnCode, exitCode>>

SetStyle ==
    /\ Step("style")
    /\ style' = "Basic"
    /\ UNCHANGED <<appName, orgName, appVersion, themeName, cxxRets,
                   noteCalls, engine, importPaths, connected, rootObjects,
                   emitted, queue, handled, envEmits, inExec, exitRequested,
                   returnCode, exitCode>>

\* the result of the bridge initializer is tested and a failure ends main
CxxQtInitChecked ==
    /\ pc = "cxxinit"
    /\ calls' = Append(calls, "cxxinit")
    /\ \E r \in BOOLEAN :
          /\ cxxRets' = Append(cxxRets, r)
          /\ IF r THEN pc' = NextPc("cxxinit") /\ exitCode' = exitCode
                  ELSE pc' = "done" /\ exitCode' = -1
    /\ UNCHANGED <<appName, orgName, appVersion, themeName, style,
                   noteCalls, engine, importPaths, connected, rootObjects,
                   emitted, queue, handled, envEmits, inExec, exitRequested,
                   returnCode>>

\* cxx_qt_init_crate_myme_ui();   the result is discarded
CxxQtInit ==
    /\ Step("cxxinit")
    /\ \E r \in BOOLEAN : cxxRets' = Append(cxxRets, r)
    /\ UNCHANGED <<appName, orgName, appVersion, themeName, style,
                   noteCalls, engine, importPaths, connected, rootObjects,
                   emitted, queue, handled, envEmits, inExec, exitRequested,
                   returnCode, exitCode>>

\* initialize_note_model("http://localhost:8008");   the result is discarded
InitializeNoteModel ==
    /\ Step("noteinit")
    /\ \E r \in BOOLEAN :
          noteCalls' = Append(noteCalls, [arg |-> BaseUrl, ret |-> r])
    /\ UNCHANGED <<appName, orgName, appVersion, themeName, style, cxxRets,
                   engine, importPaths, connected, rootObjects,
                   emitted, queue, handled, envEmits, inExec, exitRequested,
                   returnCode, exitCode>>

\* QQmlApplicationEngine engine;
ConstructEngine ==
    /\ Step("engine")
    /\ engine' = TRUE
    /\ UNCHANGED <<appName, orgName, appVersion, themeName, style, cxxRets,
                   noteCalls, importPaths, connected, rootObjects,
                   emitted, queue, handled, envEmits, inExec, exitRequested,
                   returnCode, exitCode>>

AddImportPath1 ==
    /\ Step("import1")
    /\ importPaths' = Append(importPaths, ":/qt/qml")
    /\ UNCHANGED <<appName, orgName, appVersion, themeName, style, cxxRets,
                   noteCalls, engine, connected, rootObjects,
                   emitted, queue, handled, envEmits, inExec, exitRequested,
                   returnCode, exitCode>>

AddImportPath2 ==
    /\ Step("import2")
    /\ importPaths' = Append(importPaths, "qrc:/")
    /\ UNCHANGED <<appName, orgName, appVersion, themeName, style, cxxRets,
                   noteCalls, engine, connected, rootObjects,
                   emitted, queue, handled, envEmits, inExec, exitRequested,
                   returnCode, exitCode>>

\* QObject::connect(&engine, objectCreated, &app, lambda, Qt::QueuedConnection)
Connect ==
    /\ Step("connect")
    /\ connected' = TRUE
    /\ UNCHANGED <<appName, orgName, appVersion, themeName, style, cxxRets,
                   noteCalls, engine, importPaths, rootObjects,
                   emitted, queue, handled, envEmits, inExec, exitRequested,
                   returnCode, exitCode>>

\* The engine emits objectCreated(obj, objUrl).  A connected queued handler
\* gets a posted event; a direct one runs at once.  QCoreApplication::exit
\* has an effect only on a running event loop.
Emit(obj, objUrl) ==
    /\ emitted' = emitted \cup
                    {[obj |-> obj, url |-> objUrl, received |-> connected]}
    /\ IF ~connected
         THEN UNCHANGED <<queue, handled, exitRequested, returnCode>>
         ELSE IF ConnectionType = "Queued"
           THEN /\ queue' = Append(queue, [obj |-> obj, url |-> objUrl])
                /\ UNCHANGED <<handled, exitRequested, returnCode>>
           ELSE /\ handled' = handled \cup
                      {[obj |-> obj, url |-> objUrl,
                        exit |-> ShouldExit(obj, objUrl), inLoop |-> inExec]}
                /\ IF ShouldExit(obj, objUrl) /\ inExec
                     THEN exitRequested' = TRUE /\ returnCode' = -1
                     ELSE UNCHANGED <<exitRequested, returnCode>>
                /\ UNCHANGED queue

\* engine.load(url);   a qrc: document is loaded synchronously: either a
\* root object is created and appended, or the load fails
Load ==
    /\ Step("load")
    /\ \E ok \in BOOLEAN :
          IF ok THEN rootObjects' = rootObjects + 1 /\ Emit(Object, Url)
                ELSE rootObjects' = rootObjects /\ Emit(Null, Url)
    /\ UNCHANGED <<appName, orgName, appVersion, themeName, style, cxxRets,
                   noteCalls, engine, importPaths, connected,
                   envEmits, inExec, exitCode>>

\* the test of rootObjects is inverted
CheckRootObjectsInverted ==
    /\ pc = "check"
    /\ calls' = Append(calls, "check")
    /\ IF rootObjects # 0
         THEN pc' = "done" /\ exitCode' = -1
         ELSE pc' = NextPc("check") /\ exitCode' = exitCode
    /\ UNCHANGED <<appName, orgName, appVersion, themeName, style, cxxRets,
                   noteCalls, engine, importPaths, connected, rootObjects,
                   emitted, queue, handled, envEmits, inExec, exitRequested,
                   returnCode>>

\* if (engine.rootObjects().isEmpty()) return -1;
CheckRootObjects ==
    /\ pc = "check"
    /\ calls' = Append(calls, "check")
    /\ IF rootObjects = 0
         THEN pc' = "done" /\ exitCode' = -1
         ELSE pc' = NextPc("check") /\ exitCode' = exitCode
    /\ UNCHANGED <<appName, orgName, appVersion, themeName, style, cxxRets,
                   noteCalls, engine, importPaths, connected, rootObjects,
                   emitted, queue, handled, envEmits, inExec, exitRequested,
                   returnCode>>

\* app.exec() is entered: the event loop starts
EnterExec ==
    /\ pc = "exec"
    /\ pc' = "loop"
    /\ calls' = Append(calls, "exec")
    /\ inExec' = TRUE
    /\ exitRequested' = FALSE
    /\ UNCHANGED <<appName, orgName, appVersion, themeName, style, cxxRets,
                   noteCalls, engine, importPaths, connected, rootObjects,
                   emitted, queue, handled, envEmits, returnCode, exitCode>>

\* the lambda leaves the loop with 0
ObjectCreatedHandlerExitZero ==
    /\ pc = "loop"
    /\ ~exitRequested
    /\ queue # << >>
    /\ LET e == Head(queue) IN
          /\ queue' = Tail(queue)
          /\ handled' = handled \cup
                {[obj |-> e.obj, url |-> e.url,
                  exit |-> ShouldExit(e.obj, e.url), inLoop |-> inExec]}
          /\ IF ShouldExit(e.obj, e.url)
               THEN exitRequested' = TRUE /\ returnCode' = 0
               ELSE UNCHANGED <<exitRequested, returnCode>>
    /\ UNCHANGED <<pc, calls, appName, orgName, appVersion, themeName, style,
                   cxxRets, noteCalls, engine, importPaths, connected,
                   rootObjects, emitted, envEmits, inExec, exitCode>>

\* the event loop delivers the oldest posted event to the lambda:
\*   if (!obj && url == objUrl) QCoreApplication::exit(-1);
ObjectCreatedHandler ==
    /\ pc = "loop"
    /\ ~exitRequested
    /\ queue # << >>
    /\ LET e == Head(queue) IN
          /\ queue' = Tail(queue)
          /\ handled' = handled \cup
                {[obj |-> e.obj, url |-> e.url,
                  exit |-> ShouldExit(e.obj, e.url), inLoop |-> inExec]}
          /\ IF ShouldExit(e.obj, e.url)
               THEN exitRequested' = TRUE /\ returnCode' = -1
               ELSE UNCHANGED <<exitRequested, returnCode>>
    /\ UNCHANGED <<pc, calls, appName, orgName, appVersion, themeName, style,
                   cxxRets, noteCalls, engine, importPaths, connected,
                   rootObjects, emitted, envEmits, inExec, exitCode>>

\* while the loop runs the engine finishes some other load and emits
\* objectCreated with that load's object and URL
EngineEmit ==
    /\ pc = "loop"
    /\ ~exitRequested
    /\ envEmits < MaxEmits
    /\ Len(queue) < MaxQueue
    /\ envEmits' = envEmits + 1
    /\ \E obj \in Objs, u \in Urls :
          /\ Emit(obj, u)
          /\ rootObjects' = IF obj = Object THEN rootObjects + 1
                                            ELSE rootObjects
    /\ UNCHANGED <<pc, calls, appName, orgName, appVersion, themeName, style,
                   cxxRets, noteCalls, engine, importPaths, connected,
                   inExec, exitCode>>

\* the framework leaves the loop on its own (last window closed, quit)
FrameworkQuit ==
    /\ pc = "loop"
    /\ ~exitRequested
    /\ exitRequested' = TRUE
    /\ \E c \in FrameworkCodes : returnCode' = c
    /\ UNCHANGED <<pc, calls, appName, orgName, appVersion, themeName, style,
                   cxxRets, noteCalls, engine, importPaths, connected,
                   rootObjects, emitted, queue, handled, envEmits, inExec,
                   exitCode>>

\* the value of app.exec() is dropped and main returns 0
ExecReturnZero ==
    /\ pc = "loop"
    /\ exitRequested
    /\ pc' = "done"
    /\ inExec' = FALSE
    /\ exitCode' = 0
    /\ UNCHANGED <<calls, appName, orgName, appVersion, themeName, style,
                   cxxRets, noteCalls, engine, importPaths, connected,
                   rootObjects, emitted, queue, handled, envEmits,
                   exitRequested, returnCode>>

\* return app.exec();
ExecReturn ==
    /\ pc = "loop"
    /\ exitRequested
    /\ pc' = "done"
    /\ inExec' = FALSE
    /\ exitCode' = returnCode
    /\ UNCHANGED <<calls, appName, orgName, appVersion, themeName, style,
                   cxxRets, noteCalls, engine, importPaths, connected,
                   rootObjects, emitted, queue, handled, envEmits,
                   exitRequested, returnCode>>

Next ==
    \/ ConstructApp
    \/ SetApplicationName
    \/ SetOrganizationName
    \/ SetApplicationVersion
    \/ SetThemeName
    \/ SetStyle
    \/ CxxQtInit
    \/ InitializeNoteModel
    \/ ConstructEngine
    \/ AddImportPath1
    \/ AddImportPath2
    \/ Connect
    \/ Load
    \/ CheckRootObjects
    \/ EnterExec
    \/ ObjectCreatedHandler
    \/ EngineEmit
    \/ FrameworkQuit
    \/ ExecReturn

Spec == Init /\ [][Next]_vars

\* ---- derived predicates -------------------------------------------------
Done == pc = "done"
ExecEntered == "exec" \in {calls[i] : i \in 1..Len(calls)}
Executed(p) == p \in {calls[i] : i \in 1..Len(calls)}
\* the synchronous check found rootObjects empty
SyncFailed == Executed("check") /\ Done /\ ~ExecEntered
\* the lambda called exit(-1) on the running loop
CallbackExited == \E h \in handled : h.exit /\ h.inLoop

TypeOK ==
    /\ pc \in {Order[i] : i \in 1..Len(Order)} \cup {"loop", "done"}
    /\ rootObjects \in Nat
    /\ envEmits \in 0..MaxEmits
    /\ Len(queue) <= MaxQueue
    /\ exitCode \in FrameworkCodes
    /\ returnCode \in FrameworkCodes

\* ---- claims -------------------------------------------------------------

\* C1: when engine.load(url) leaves rootObjects empty, main returns -1 and
\* app.exec() is never entered.
C1_LoadFailureExits ==
    (Executed("load") /\ rootObjects = 0) =>
        /\ ~ExecEntered
        /\ pc \notin {"exec", "loop"}
        /\ (Done => exitCode = -1)

C1_Witness ==
    Done /\ Executed("load") /\ rootObjects = 0 /\ exitCode = -1 /\ ~inExec

\* C2: a run of the objectCreated lambda calls QCoreApplication::exit(-1)
\* exactly when its object is null and its URL is the requested URL; for a
\* non-null object or another URL it requests no exit and changes no state
\* other than consuming its posted event.
C2_CallbackGuard ==
    [][(Len(queue') < Len(queue)) =>
          LET e == Head(queue) IN
             IF e.obj = "null" /\ e.url = "qrc:/crates/myme-ui/qml/Main.qml"
               THEN exitRequested' /\ returnCode' = -1
               ELSE UNCHANGED <<exitRequested, returnCode, pc, exitCode,
                                rootObjects, inExec, connected>>]_vars

C2_Witness ==
    /\ pc = "loop"
    /\ ~exitRequested
    /\ \E h \in handled : h.obj = Null /\ h.url = OtherUrl /\ ~h.exit
    /\ \E h \in handled : h.obj = Object /\ h.url = Url /\ ~h.exit

\* C3: from the statement that sets the version on, and in particular when
\* the event loop starts and while it runs, the application metadata is
\* name "MyMe", organization "MyMe", version "0.1.0".
C3_Metadata ==
    Executed("version") =>
        appName = "MyMe" /\ orgName = "MyMe" /\ appVersion = "0.1.0"

C3_Witness ==
    /\ pc = "loop"
    /\ rootObjects > 0
    /\ appName = "MyMe" /\ orgName = "MyMe" /\ appVersion = "0.1.0"

\* C4: main returns -1 when the engine has no root object after the load
\* and when the queued lambda called exit(-1); in every other run it
\* returns exactly the value app.exec() returned.
C4_ExitCode ==
    Done =>
        /\ (rootObjects = 0 => exitCode = -1 /\ ~ExecEntered)
        /\ (CallbackExited => exitCode = -1)
        /\ (rootObjects # 0 => ExecEntered /\ exitCode = returnCode)

C4_Witness ==
    Done /\ ExecEntered /\ ~CallbackExited /\ exitCode = 1 /\ returnCode = 1

\* C5: either detection of a missing root object ends main at once with -1:
\* the synchronous check returns -1 in the step that finds rootObjects
\* empty, and after the lambda called exit(-1) the next step is main
\* returning -1.
C5_FailureTerminates ==
    [][/\ (pc = "check" /\ rootObjects = 0) => (pc' = "done" /\ exitCode' = -1)
       /\ (CallbackExited /\ ~Done) => (pc' = "done" /\ exitCode' = -1)]_vars

C5_Witness ==
    Done /\ CallbackExited /\ exitCode = -1 /\ rootObjects > 0

\* C6: the statements of main run in one fixed order, and both bridge
\* initializers have returned before the engine exists and before
\* load(url) is called.
C6_BootOrder ==
    /\ \A i \in 1..Len(calls) :
          calls[i] = <<"app", "name", "org", "version", "theme", "style",
                       "cxxinit", "noteinit", "engine", "import1",
                       "import2", "connect", "load", "check", "exec">>[i]
    /\ (engine \/ Executed("load")) =>
          Len(cxxRets) = 1 /\ Len(noteCalls) = 1

C6_Witness ==
    /\ pc = "check"
    /\ engine
    /\ Len(importPaths) = 2
    /\ Len(cxxRets) = 1 /\ Len(noteCalls) = 1

\* C7: whatever the two bridge initializers return, main goes on to
\* construct the engine and to load the document, and the value it returns
\* is -1 exactly when the load left no root object and the value of
\* app.exec() otherwise.
C7_InitResultsIgnored ==
    /\ (Executed("noteinit") /\ pc # "engine") => engine
    /\ Done =>
          /\ engine
          /\ Executed("load")
          /\ Len(cxxRets) = 1 /\ Len(noteCalls) = 1
          /\ exitCode = IF ExecEntered THEN returnCode ELSE -1

C7_Witness ==
    /\ Done
    /\ ExecEntered
    /\ exitCode = 0
    /\ cxxRets = <<FALSE>>
    /\ Len(noteCalls) = 1 /\ ~noteCalls[1].ret

\* C8: each bridge initializer is called exactly once in every run, and
\* initialize_note_model is called with "http://localhost:8008".
C8_InitOnce ==
    /\ Len(cxxRets) = (IF Executed("cxxinit") THEN 1 ELSE 0)
    /\ Len(noteCalls) = (IF Executed("noteinit") THEN 1 ELSE 0)
    /\ \A i \in 1..Len(noteCalls) : noteCalls[i].arg = "http://localhost:8008"
    /\ Done => Executed("cxxinit") /\ Executed("noteinit")

C8_Witness ==
    /\ Done
    /\ ~ExecEntered
    /\ Len(cxxRets) = 1
    /\ Len(noteCalls) = 1 /\ noteCalls[1].arg = "http://localhost:8008"

\* C9: the lambda runs only inside the event loop; when the load leaves
\* rootObjects empty main returns -1 with the posted event still pending
\* and the lambda never run; the lambda's exit(-1) happens only in runs
\* whose synchronous check found a root object.
C9_QueuedOnly ==
    /\ \A h \in handled : h.inLoop
    /\ handled # {} => ExecEntered
    /\ (pc \in {"check", "exec"}) => handled = {} /\ Len(queue) = 1
    /\ (Done /\ ~ExecEntered) =>
          handled = {} /\ queue = <<[obj |-> Null, url |-> Url]>>
    /\ (\E h \in handled : h.exit) => ExecEntered /\ rootObjects > 0

C9_Witness ==
    /\ Done
    /\ ~ExecEntered
    /\ rootObjects = 0
    /\ Len(queue) = 1
    /\ handled = {}

\* C10: the lambda is connected before engine.load(url) is called, so
\* every objectCreated emission reaches the lambda's connection.
C10_ConnectedBeforeLoad ==
    /\ pc = "load" => connected
    /\ Executed("load") => Executed("connect")
    /\ \A e \in emitted : e.received
    /\ Executed("load") =>
          \E e \in emitted : e.url = "qrc:/crates/myme-ui/qml/Main.qml"

C10_Witness ==
    /\ pc = "check"
    /\ connected
    /\ emitted = {[obj |-> Object, url |-> Url, received |-> TRUE]}
    /\ Len(queue) = 1
====
